---- MODULE Spec2Model ----
(***************************************************************************)
(* The two import scripts of kensho, import-more-data.py and               *)
(* test-data-import.py.  Each is one sequential main(): load the source    *)
(* list, GET /api/health, then for every entry of a fixed slice build the  *)
(* request body, POST /api/anime, on 201 POST the episode batch, count the *)
(* entry as success or failure, and print a report.                        *)
(*                                                                         *)
(* The source list is read once and never changed, so the entry at the     *)
(* loop position is drawn when the loop reaches it.  The backend is the    *)
(* environment: every call answers with a status or raises.                *)
(***************************************************************************)
EXTENDS Integers, Sequences, FiniteSets, TLC

(* ---- bounds of the model ---- *)
MaxLen == 16        \* longest source list, len(anime_entries)
MaxEp == 6          \* largest declared episode count of an entry

(* ---- constants of the scripts ---- *)
MoreStartIndex == 10    \* import-more-data.py: start_index = 10
MoreLimit == 100        \* import-more-data.py: limit = 100
MoreEpStop == 4         \* import-more-data.py: range(1, min(episodes + 1, 4))
TestLimit == 10         \* test-data-import.py: limit = 10
TestEpStop == 6         \* test-data-import.py: range(1, min(episodes + 1, 6))
MaxShownErrors == 5     \* import-more-data.py: if failed_count <= 5
HealthOk == 200         \* health.status_code != 200
Created == 201          \* response.status_code == 201

More == "import-more-data"
Test == "test-data-import"
Scripts == {More, Test}

Min(a, b) == IF a < b THEN a ELSE b

(* ---- the slice anime_entries[start : start + limit] ---- *)
StartIndex(s) == IF s = More THEN MoreStartIndex ELSE 0
Limit(s) == IF s = More THEN MoreLimit ELSE TestLimit
EpStop(s) == IF s = More THEN MoreEpStop ELSE TestEpStop

\* Python's slice of a list of length len: the positions start .. stop-1
\* that exist, none when start is at or past the end.
SliceStop(s, len) == Min(StartIndex(s) + Limit(s), len)

(* ---- JSON values of the fields the scripts read ---- *)
\* A field is absent, null, or a value of its declared type.
NoneTitle == "<None>"
TitleFields == {"absent", "null", "Some title"}
SeasonFields == {"absent", "null", "SPRING"}
AnimeSeasonFields ==
    {[t |-> "absent", season |-> "absent"], [t |-> "null", season |-> "absent"]}
        \cup [t : {"object"}, season : SeasonFields]
EpisodeFields ==
    {[t |-> "absent", v |-> 0], [t |-> "null", v |-> 0]}
        \cup [t : {"int"}, v : 0..MaxEp]
TagFields == {"absent", "null", "list"}

\* An entry with every field present and of its type, declaring n episodes
TypedEntry(n) ==
    [title |-> "Some title",
     animeSeason |-> [t |-> "object", season |-> "SPRING"],
     episodes |-> [t |-> "int", v |-> n],
     tags |-> "list"]

\* The entries of the source file: the typed ones, and those that differ
\* from a typed one in a single field, absent or null.
SourceEntries ==
    {TypedEntry(n) : n \in 0..MaxEp}
        \cup {[TypedEntry(1) EXCEPT !.title = x] : x \in TitleFields}
        \cup {[TypedEntry(1) EXCEPT !.animeSeason = x] : x \in AnimeSeasonFields}
        \cup {[TypedEntry(1) EXCEPT !.episodes = x] : x \in EpisodeFields}
        \cup {[TypedEntry(1) EXCEPT !.tags = x] : x \in TagFields}

\* str.lower() on the season names of the source file
Lower(str) == IF str = "SPRING" THEN "spring" ELSE str

\* entry.get("animeSeason", {}).get("season", "spring").lower() raises
\* AttributeError when animeSeason or season is null; entry.get("tags", [])[:10]
\* raises TypeError when tags is null.  Both are outside the try block.
BuildRaises(entry) ==
    \/ entry.animeSeason.t = "null"
    \/ entry.animeSeason.t = "object" /\ entry.animeSeason.season = "null"
    \/ entry.tags = "null"

\* dict.get(key, default): the default only when the key is absent; a null
\* stays None.
AnimeData(entry) ==
    [title |-> CASE entry.title = "absent" -> "Unknown"
                 [] entry.title = "null" -> NoneTitle
                 [] OTHER -> entry.title,
     episodes |-> IF entry.episodes.t = "absent"
                  THEN [t |-> "int", v |-> 0]
                  ELSE entry.episodes,
     season |-> IF entry.animeSeason.t = "absent"
                   \/ entry.animeSeason.season = "absent"
                THEN Lower("spring")
                ELSE Lower(entry.animeSeason.season)]

NoData == [title |-> "", episodes |-> [t |-> "int", v |-> 0], season |-> ""]

\* [... for ep in range(1, min(episodes + 1, stop))]: the episode numbers
EpisodesDataNoMin(s, episodes) == [k \in 1..(EpStop(s) - 1) |-> k]
EpisodesData(s, episodes) ==
    [k \in 1..(Min(episodes + 1, EpStop(s)) - 1) |-> k]

(* ---- outcomes of one HTTP call ---- *)
NoCall == [raised |-> FALSE, status |-> 0]      \* the call was not made
Raised == [raised |-> TRUE, status |-> 0]       \* requests raised, no response
Answer(n) == [raised |-> FALSE, status |-> n]   \* a response with status n
HealthOutcomes == {Raised} \cup {Answer(n) : n \in {HealthOk, 503}}
CreateOutcomes == {Raised} \cup {Answer(n) : n \in {Created, 500}}
Issued(call) == call # NoCall

\* The run goes on only when the health response has status 200.  A
\* sys.exit(1) in the try block raises SystemExit, which the bare except
\* catches and answers with its own sys.exit(1).
HealthPassesNoStatus(h) == ~h.raised
HealthPasses(h) == ~h.raised /\ h.status = HealthOk

\* if anime_data['episodes'] > 0
WantsEpisodesZero(episodes) == episodes.v >= 0
WantsEpisodes(episodes) == episodes.v > 0

\* The failure message is printed for every failure in test-data-import and
\* only while failed_count <= 5 in import-more-data.
ShowsErrorAlways(s, failed) == TRUE
ShowsError(s, failed) == s = Test \/ failed <= MaxShownErrors

\* import-more-data prints anime_data['title'][:50]; slicing None raises
\* TypeError.  test-data-import formats the title without slicing it.
TitleSliceRaises(s, data) == s = More /\ data.title = NoneTitle

\* failed_count += 1, then the guarded print: the new counters, and whether
\* the print raised.
CountFailure(s, data, failed, msgs) ==
    LET f == failed + 1
    IN  IF ShowsError(s, f)
        THEN IF TitleSliceRaises(s, data)
             THEN [failed |-> f, msgs |-> msgs, raised |-> TRUE]
             ELSE [failed |-> f, msgs |-> msgs + 1, raised |-> FALSE]
        ELSE [failed |-> f, msgs |-> msgs, raised |-> FALSE]

\* except Exception as e: an exception of its print leaves main().
ExceptClause(s, data, failed, msgs) == CountFailure(s, data, failed, msgs)

\* else: of the status test.  It is inside the try block, so an exception of
\* its print is caught by the except clause, which counts the entry again.
ElseBranch(s, data, failed, msgs) ==
    LET r == CountFailure(s, data, failed, msgs)
    IN  IF r.raised THEN ExceptClause(s, data, r.failed, r.msgs) ELSE r

VARIABLES script, nEntries, pc, exit_code, uncaught, pos, health,
          success_count, failed_count,
          anime_data, response, ep_response, episodes_data,
          anime_posts, failure_msgs

vars == <<script, nEntries, pc, exit_code, uncaught, pos, health,
          success_count, failed_count,
          anime_data, response, ep_response, episodes_data,
          anime_posts, failure_msgs>>

\* script, nEntries: which script runs, and len(anime_entries)
\* pc: "health", "loop", "done" (report printed), "exit" (sys.exit(1)),
\*     "crashed" (an exception left main()); exit_code is -1 while running
\* uncaught: where the exception that left main() was raised
\* pos: 0-based position in anime_entries of the next entry of the slice
\* anime_data, response, ep_response, episodes_data: the latest iteration's
\*     request body, create-anime outcome, create-episodes outcome (NoCall
\*     when no create-episodes request was issued) and batch
\* anime_posts: positions of the entries POSTed to /api/anime, in order
\* failure_msgs: number of failure messages printed
Init ==
    /\ script \in Scripts
    /\ nEntries \in 0..MaxLen
    /\ pc = "health"
    /\ exit_code = -1
    /\ uncaught = "none"
    /\ pos = 0
    /\ health = NoCall
    /\ success_count = 0
    /\ failed_count = 0
    /\ anime_data = NoData
    /\ response = NoCall
    /\ ep_response = NoCall
    /\ episodes_data = <<>>
    /\ anime_posts = <<>>
    /\ failure_msgs = 0

\* requests.get(f"{base_url}/api/health") and the test of its status
HealthCheck ==
    /\ pc = "health"
    /\ \E h \in HealthOutcomes :
        /\ health' = h
        /\ IF HealthPasses(h)
           THEN /\ pc' = "loop"
                /\ pos' = StartIndex(script)
                /\ exit_code' = exit_code
           ELSE /\ pc' = "exit"
                /\ exit_code' = 1
                /\ pos' = pos
    /\ success_count' = 0
    /\ failed_count' = 0
    /\ UNCHANGED <<script, nEntries, uncaught, anime_data, response,
                   ep_response, episodes_data, anime_posts, failure_msgs>>

InLoop == pc = "loop" /\ pos < SliceStop(script, nEntries)

\* The counters after a failure r of the entry at pos: the loop goes on,
\* unless the print of the except clause raised.
AfterFailure(r) ==
    /\ failed_count' = r.failed
    /\ failure_msgs' = r.msgs
    /\ success_count' = success_count
    /\ IF r.raised
       THEN /\ pc' = "crashed"
            /\ exit_code' = 1
            /\ uncaught' = "except clause"
            /\ pos' = pos
       ELSE /\ pc' = "loop"
            /\ pos' = pos + 1
            /\ UNCHANGED <<exit_code, uncaught>>

\* Building anime_data raises: the dict is built before the try block.
BuildError ==
    /\ InLoop
    /\ \E entry \in SourceEntries : BuildRaises(entry)
    /\ pc' = "crashed"
    /\ exit_code' = 1
    /\ uncaught' = "build"
    /\ UNCHANGED <<script, nEntries, pos, health, success_count, failed_count,
                   anime_data, response, ep_response, episodes_data,
                   anime_posts, failure_msgs>>

\* requests.post(.../api/anime) raises.
PostAnimeRaises ==
    /\ InLoop
    /\ \E entry \in SourceEntries :
        /\ ~BuildRaises(entry)
        /\ anime_data' = AnimeData(entry)
        /\ AfterFailure(ExceptClause(script, AnimeData(entry),
                                     failed_count, failure_msgs))
    /\ anime_posts' = Append(anime_posts, pos)
    /\ response' = Raised
    /\ ep_response' = NoCall
    /\ episodes_data' = <<>>
    /\ UNCHANGED <<script, nEntries, health>>

\* The create-anime response has a status other than 201.
PostAnimeRejected ==
    /\ InLoop
    /\ \E entry \in SourceEntries, a \in CreateOutcomes :
        /\ ~BuildRaises(entry)
        /\ ~a.raised /\ a.status # Created
        /\ anime_data' = AnimeData(entry)
        /\ response' = a
        /\ AfterFailure(ElseBranch(script, AnimeData(entry),
                                   failed_count, failure_msgs))
    /\ anime_posts' = Append(anime_posts, pos)
    /\ ep_response' = NoCall
    /\ episodes_data' = <<>>
    /\ UNCHANGED <<script, nEntries, health>>

\* success_count += 1 and the next entry
AfterSuccess ==
    /\ success_count' = success_count + 1
    /\ pc' = "loop"
    /\ pos' = pos + 1
    /\ UNCHANGED <<failed_count, failure_msgs, exit_code, uncaught>>

\* The create-anime response has status 201.
PostAnimeCreated ==
    /\ InLoop
    /\ \E entry \in SourceEntries :
        LET data == AnimeData(entry)
        IN  /\ ~BuildRaises(entry)
            /\ anime_data' = data
            /\ \/ \* None > 0 raises TypeError
                  /\ data.episodes.t = "null"
                  /\ ep_response' = NoCall
                  /\ episodes_data' = <<>>
                  /\ AfterFailure(ExceptClause(script, data,
                                               failed_count, failure_msgs))
               \/ \* no episodes declared
                  /\ data.episodes.t = "int"
                  /\ ~WantsEpisodes(data.episodes)
                  /\ ep_response' = NoCall
                  /\ episodes_data' = <<>>
                  /\ AfterSuccess
               \/ \* requests.post(.../episodes) with the batch
                  /\ data.episodes.t = "int"
                  /\ WantsEpisodes(data.episodes)
                  /\ episodes_data' = EpisodesData(script, data.episodes.v)
                  /\ \E e \in CreateOutcomes :
                        /\ ep_response' = e
                        /\ IF e.raised
                           THEN AfterFailure(ExceptClause(script, data,
                                               failed_count, failure_msgs))
                           ELSE AfterSuccess
    /\ anime_posts' = Append(anime_posts, pos)
    /\ response' = Answer(Created)
    /\ UNCHANGED <<script, nEntries, health>>

\* The slice is exhausted: the report is printed and main() returns.
Report ==
    /\ pc = "loop"
    /\ pos >= SliceStop(script, nEntries)
    /\ pc' = "done"
    /\ exit_code' = 0
    /\ UNCHANGED <<script, nEntries, uncaught, pos, health, success_count,
                   failed_count, anime_data, response, ep_response,
                   episodes_data, anime_posts, failure_msgs>>

Next ==
    \/ HealthCheck
    \/ BuildError
    \/ PostAnimeRaises
    \/ PostAnimeRejected
    \/ PostAnimeCreated
    \/ Report

Spec == Init /\ [][Next]_vars

(* ======================= the claims ======================= *)

Max(a, b) == IF a > b THEN a ELSE b

\* One loop iteration got as far as the create-anime request.
Iterated == Len(anime_posts') = Len(anime_posts) + 1

\* The episode cap the scripts document: "Max 3 episodes per anime" and
\* "Limit to 5 episodes for testing".
Cap == IF script = More THEN 3 ELSE 5

\* The positions start .. min(start + limit, len) - 1, in order
SlicePositions ==
    [k \in 1..Max(0, Min(StartIndex(script) + Limit(script), nEntries)
                        - StartIndex(script))
        |-> StartIndex(script) + k - 1]

\* C1: when the health call raises or answers with a status other than 200,
\* the run has ended with a non-zero exit code and no create-anime and no
\* create-episodes request has been issued.
C1_HealthGate ==
    (Issued(health) /\ (health.raised \/ health.status # 200))
        => /\ pc = "exit"
           /\ exit_code # 0 /\ exit_code # -1
           /\ anime_posts = <<>>
           /\ ~Issued(response)
           /\ ~Issued(ep_response)

C1_Witness == health = Answer(503) /\ pc = "exit" /\ exit_code = 1

\* C2 (as claimed): an entry whose create-anime request returned 201 is
\* counted as a success and not as a failure, whatever the create-episodes
\* call does.
C2_SuccessOnCreateOnly ==
    [][(Iterated /\ response' = Answer(Created)
            /\ anime_data'.episodes.t = "int")
        => (success_count' = success_count + 1
            /\ failed_count' = failed_count)]_vars

\* C3 (as claimed): a transport error of either create call is counted as one
\* failure, no success, and the loop goes on to the next entry.
C3_TransportErrorAbsorbed ==
    [][(Iterated /\ (response'.raised \/ ep_response'.raised))
        => (failed_count' = failed_count + 1
            /\ success_count' = success_count
            /\ pc' = "loop" /\ pos' = pos + 1)]_vars

\* C4 (as claimed): a create-anime response other than 201 is counted as
\* exactly one failure, no success, and the loop goes on to the next entry.
C4_RejectionCountedOnce ==
    [][(Iterated /\ ~response'.raised /\ response'.status # Created)
        => (failed_count' = failed_count + 1
            /\ success_count' = success_count
            /\ pc' = "loop" /\ pos' = pos + 1)]_vars

\* C5 (as claimed): no entry, however malformed its fields, makes the
\* building of the request body raise.
C5_NoEntryFailsTheRun == uncaught # "build"

\* C6 (as claimed): with a healthy backend, a run that has ended has issued
\* create-anime requests for exactly the positions of the slice, once each
\* and in order.
C6_ExactSlice ==
    (HealthPasses(health) /\ pc \in {"done", "crashed"})
        => anime_posts = SlicePositions

\* C7: the batch of a create-episodes request for an entry declaring N > 0
\* episodes has exactly min(N, cap) records, numbered 1 .. min(N, cap) in
\* order, never more than N; and such an entry's batch is sent once its
\* create-anime request returned 201.
C7_EpisodeBatch ==
    LET n == anime_data.episodes.v
    IN  /\ Issued(ep_response)
            => /\ Len(episodes_data) = Min(n, Cap)
               /\ \A k \in 1..Len(episodes_data) : episodes_data[k] = k
               /\ Len(episodes_data) <= n
        /\ (response = Answer(Created) /\ anime_data.episodes.t = "int" /\ n > 0)
            => Issued(ep_response)

C7_Witness ==
    /\ script = Test
    /\ Issued(ep_response)
    /\ anime_data.episodes.v > 5
    /\ episodes_data = <<1, 2, 3, 4, 5>>

\* C8: a create-episodes request is issued in an iteration only when the
\* create-anime request of that iteration returned 201 and the entry
\* declares more than zero episodes.
C8_EpisodesOnlyAfterCreate ==
    Issued(ep_response)
        => /\ response = Answer(Created)
           /\ anime_data.episodes.t = "int"
           /\ anime_data.episodes.v > 0

C8_Witness ==
    /\ ep_response = Answer(500)
    /\ response = Answer(Created)
    /\ anime_data.episodes.v = 1

\* C9 (as claimed): in either script at most 5 failure messages are printed.
C9_AtMostFiveMessages == failure_msgs <= 5

\* C9 (amended): import-more-data prints a failure message only while the
\* failure counter is at most 5, so at most 5 per run; test-data-import
\* prints one for every failure it counts.
C9_FiveInMoreAllInTest ==
    /\ script = More => failure_msgs <= Min(failed_count, 5)
    /\ script = Test => failure_msgs = failed_count

C9_Witness == script = More /\ failed_count = 6 /\ failure_msgs = 5

\* C10 (as claimed): at every iteration boundary the two counters add up to
\* the number of entries whose iteration has finished, and at the report to
\* the size of the slice, min(limit, max(0, len - start)).
C10_CounterConservation ==
    /\ pc \in {"loop", "done"}
        => success_count + failed_count = pos - StartIndex(script)
    /\ pc = "done"
        => success_count + failed_count
             = Min(Limit(script), Max(0, nEntries - StartIndex(script)))
====
